---- MODULE Spec2Model ----
(***************************************************************************)
(* Model of soss::websocket::RosbridgeV2Encoding<Serializer> and of the    *)
(* BsonSerializer wire codec.                                              *)
(*                                                                         *)
(* Structured values (nlohmann::json) are tagged records.  Wire data is a  *)
(* sequence of tokens: a JSON text is the sequence of its lexical tokens,  *)
(* a BSON document the sequence of its binary items (int32 lengths, type   *)
(* tag bytes, C strings, ...).  The two vocabularies are disjoint, as the  *)
(* two byte formats are: no BSON document is a JSON text.                  *)
(***************************************************************************)
EXTENDS Integers, Sequences, FiniteSets, TLC

\* ------------------------------------------------------------------------
\* Bounds of the model
\* ------------------------------------------------------------------------
\* number of fields other than op in an inbound envelope
MaxFields == 4
\* number of inbound messages interpreted in one run
MaxMsgs == 3
\* length of the sequences of the value model
MaxLen == 2

\* ------------------------------------------------------------------------
\* Vocabulary: message fields and op codes
\* ------------------------------------------------------------------------
JsonIdKey == "id"
JsonOpKey == "op"
JsonTopicNameKey == "topic"
JsonTypeNameKey == "type"
JsonMsgKey == "msg"
JsonServiceKey == "service"
JsonArgsKey == "args"
JsonValuesKey == "values"
JsonResultKey == "result"

JsonOpAdvertiseTopicKey == "advertise"
JsonOpUnadvertiseTopicKey == "unadvertise"
JsonOpPublishKey == "publish"
JsonOpSubscribeKey == "subscribe"
JsonOpUnsubscribeKey == "unsubscribe"
JsonOpServiceRequestKey == "call_service"
JsonOpAdvertiseServiceKey == "advertise_service"
JsonOpUnadvertiseServiceKey == "unadvertise_service"
JsonOpServiceResponseKey == "service_response"

\* ------------------------------------------------------------------------
\* Structured values: nlohmann::json
\* ------------------------------------------------------------------------
JNull == [t |-> "null"]
JBool(b) == [t |-> "bool", b |-> b]
JInt(n) == [t |-> "int", n |-> n]
\* a floating point number; n stands for the value n + 1/2
JFloat(n) == [t |-> "float", n |-> n]
JStr(s) == [t |-> "str", s |-> s]
\* a byte blob
JBin(bytes) == [t |-> "bin", bytes |-> bytes]
JArr(items) == [t |-> "arr", items |-> items]
\* an object is a std::map: a function from its keys to values
JObj(fields) == [t |-> "obj", fields |-> fields]

\* std::map iterates its keys in lexicographic order; the keys of the model,
\* listed in that order.
KeyOrder ==
  <<"a", "args", "b", "bytes", "extra", "id", "msg", "op", "result",
    "service", "subtype", "topic", "type", "values">>

RECURSIVE SortedFrom(_, _)
SortedFrom(keys, i) ==
  IF i > Len(KeyOrder) THEN << >>
  ELSE IF KeyOrder[i] \in keys
       THEN <<KeyOrder[i]>> \o SortedFrom(keys, i + 1)
       ELSE SortedFrom(keys, i + 1)

\* the keys of an object in iteration order
SortedKeys(fields) == SortedFrom(DOMAIN fields, 1)

\* ------------------------------------------------------------------------
\* Wire tokens
\* ------------------------------------------------------------------------
Tok(k, s, n) == [k |-> k, s |-> s, n |-> n]

\* JSON text
Punct(c) == Tok("punct", c, 0)
Lit(w) == Tok("lit", w, 0)
NumTok(n) == Tok("num", "", n)
FltTok(n) == Tok("flt", "", n)
StrTok(s) == Tok("strlit", s, 0)

\* BSON
I32(n) == Tok("int32", "", n)
Byte(n) == Tok("byte", "", n)
F64(n) == Tok("double", "", n)
CStr(s) == Tok("cstring", s, 0)
Chars(s) == Tok("chars", s, 0)

\* results of the parsers: a value and the unread input, or a failure
Parsed(v, rest) == [ok |-> TRUE, val |-> v, rest |-> rest]
ParseFail == [ok |-> FALSE, val |-> JNull, rest |-> << >>]

\* ------------------------------------------------------------------------
\* JSON text: dump and parse
\* ------------------------------------------------------------------------
RECURSIVE JsonDump(_)
RECURSIVE DumpItems(_, _)
RECURSIVE DumpMembers(_, _, _)

DumpItems(items, i) ==
  IF i > Len(items) THEN << >>
  ELSE (IF i > 1 THEN <<Punct(",")>> ELSE << >>)
       \o JsonDump(items[i]) \o DumpItems(items, i + 1)

DumpMembers(fields, keys, i) ==
  IF i > Len(keys) THEN << >>
  ELSE (IF i > 1 THEN <<Punct(",")>> ELSE << >>)
       \o <<StrTok(keys[i]), Punct(":")>>
       \o JsonDump(fields[keys[i]]) \o DumpMembers(fields, keys, i + 1)

\* json::dump(): a byte blob is written as an object with the members bytes
\* and subtype, every other value in its own textual form
JsonDump(v) ==
  CASE v.t = "null" -> <<Lit("null")>>
    [] v.t = "bool" -> <<Lit(IF v.b THEN "true" ELSE "false")>>
    [] v.t = "int" -> <<NumTok(v.n)>>
    [] v.t = "float" -> <<FltTok(v.n)>>
    [] v.t = "str" -> <<StrTok(v.s)>>
    [] v.t = "bin" ->
         <<Punct("{"), StrTok("bytes"), Punct(":"), Punct("[")>>
         \o DumpItems([i \in DOMAIN v.bytes |-> JInt(v.bytes[i])], 1)
         \o <<Punct("]"), Punct(","), StrTok("subtype"), Punct(":"),
              Lit("null"), Punct("}")>>
    [] v.t = "arr" -> <<Punct("[")>> \o DumpItems(v.items, 1) \o <<Punct("]")>>
    [] v.t = "obj" ->
         <<Punct("{")>> \o DumpMembers(v.fields, SortedKeys(v.fields), 1)
         \o <<Punct("}")>>

\* f with key k bound to v (std::map insert or assign)
Put(f, k, v) == [x \in DOMAIN f \cup {k} |-> IF x = k THEN v ELSE f[x]]

EmptyFields == [x \in {} |-> JNull]

RECURSIVE ParseValue(_)
RECURSIVE ParseItems(_, _)
RECURSIVE ParseMembers(_, _)

\* the elements of an array after "[" or after a ","
ParseItems(toks, acc) ==
  LET r == ParseValue(toks) IN
  IF ~r.ok \/ r.rest = << >> THEN ParseFail
  ELSE IF Head(r.rest) = Punct(",")
       THEN ParseItems(Tail(r.rest), Append(acc, r.val))
  ELSE IF Head(r.rest) = Punct("]")
       THEN Parsed(JArr(Append(acc, r.val)), Tail(r.rest))
  ELSE ParseFail

\* the members of an object after "{" or after a ","
ParseMembers(toks, acc) ==
  IF Len(toks) < 2 \/ toks[1].k /= "strlit" \/ toks[2] /= Punct(":")
  THEN ParseFail
  ELSE LET r == ParseValue(SubSeq(toks, 3, Len(toks))) IN
       IF ~r.ok \/ r.rest = << >> THEN ParseFail
       ELSE IF Head(r.rest) = Punct(",")
            THEN ParseMembers(Tail(r.rest), Put(acc, toks[1].s, r.val))
       ELSE IF Head(r.rest) = Punct("}")
            THEN Parsed(JObj(Put(acc, toks[1].s, r.val)), Tail(r.rest))
       ELSE ParseFail

ParseValue(toks) ==
  IF toks = << >> THEN ParseFail
  ELSE LET h == Head(toks)
           rest == Tail(toks) IN
       CASE h.k = "lit" /\ h.s = "null" -> Parsed(JNull, rest)
         [] h.k = "lit" /\ h.s = "true" -> Parsed(JBool(TRUE), rest)
         [] h.k = "lit" /\ h.s = "false" -> Parsed(JBool(FALSE), rest)
         [] h.k = "num" -> Parsed(JInt(h.n), rest)
         [] h.k = "flt" -> Parsed(JFloat(h.n), rest)
         [] h.k = "strlit" -> Parsed(JStr(h.s), rest)
         [] h = Punct("[") ->
              IF rest /= << >> /\ Head(rest) = Punct("]")
              THEN Parsed(JArr(<< >>), Tail(rest))
              ELSE ParseItems(rest, << >>)
         [] h = Punct("{") ->
              IF rest /= << >> /\ Head(rest) = Punct("}")
              THEN Parsed(JObj(EmptyFields), Tail(rest))
              ELSE ParseMembers(rest, EmptyFields)
         [] OTHER -> ParseFail

\* json::Json::parse(): the whole input must be one JSON text
JsonParse(toks) ==
  LET r == ParseValue(toks) IN
  IF r.ok /\ r.rest = << >> THEN r ELSE ParseFail

\* ------------------------------------------------------------------------
\* BSON: to_bson and from_bson
\* ------------------------------------------------------------------------
\* number of bytes a token stands for
TokSize(tok) ==
  CASE tok.k = "int32" -> 4
    [] tok.k = "byte" -> 1
    [] tok.k = "double" -> 8
    [] tok.k = "cstring" -> Len(tok.s) + 1
    [] tok.k = "chars" -> Len(tok.s)
    [] OTHER -> 1

RECURSIVE WireSize(_)
WireSize(toks) ==
  IF toks = << >> THEN 0 ELSE TokSize(Head(toks)) + WireSize(Tail(toks))

\* the decimal keys BSON gives to the elements of an array
IndexKey(i) == <<"0", "1", "2", "3", "4", "5", "6", "7">>[i]

RECURSIVE BsonElement(_, _)
RECURSIVE BsonObject(_)
RECURSIVE BsonArray(_)
RECURSIVE BsonMembers(_, _, _)
RECURSIVE BsonItems(_, _)

BsonMembers(fields, keys, i) ==
  IF i > Len(keys) THEN << >>
  ELSE BsonElement(keys[i], fields[keys[i]])
       \o BsonMembers(fields, keys, i + 1)

BsonItems(items, i) ==
  IF i > Len(items) THEN << >>
  ELSE BsonElement(IndexKey(i), items[i]) \o BsonItems(items, i + 1)

\* a document: its size, its elements, a terminating zero byte
BsonObject(fields) ==
  LET body == BsonMembers(fields, SortedKeys(fields), 1) IN
  <<I32(4 + WireSize(body) + 1)>> \o body \o <<Byte(0)>>

BsonArray(items) ==
  LET body == BsonItems(items, 1) IN
  <<I32(4 + WireSize(body) + 1)>> \o body \o <<Byte(0)>>

\* an element: type tag, key, payload
BsonElement(key, v) ==
  CASE v.t = "null" -> <<Byte(10), CStr(key)>>
    [] v.t = "bool" -> <<Byte(8), CStr(key), Byte(IF v.b THEN 1 ELSE 0)>>
    [] v.t = "int" -> <<Byte(16), CStr(key), I32(v.n)>>
    [] v.t = "float" -> <<Byte(1), CStr(key), F64(v.n)>>
    [] v.t = "str" ->
         <<Byte(2), CStr(key), I32(Len(v.s) + 1), Chars(v.s), Byte(0)>>
    [] v.t = "bin" ->
         <<Byte(5), CStr(key), I32(Len(v.bytes)), Byte(0)>>
         \o [i \in DOMAIN v.bytes |-> Byte(v.bytes[i])]
    [] v.t = "arr" -> <<Byte(4), CStr(key)>> \o BsonArray(v.items)
    [] v.t = "obj" -> <<Byte(3), CStr(key)>> \o BsonObject(v.fields)

\* the result of a serialization: bytes, or the exception thrown
Bytes(toks) == [ok |-> TRUE, bytes |-> toks]
SerializeFail == [ok |-> FALSE, bytes |-> << >>]

\* json::to_bson(): only an object can be the top level of a BSON document,
\* any other value throws type_error
to_bson(j) == IF j.t = "obj" THEN Bytes(BsonObject(j.fields)) ELSE SerializeFail

RECURSIVE ParseBsonDocument(_, _)
RECURSIVE ParseBsonElements(_, _, _)
RECURSIVE ParseBsonElement(_, _)

\* the elements of a document up to its terminating zero byte; an array
\* drops the keys and keeps the order
ParseBsonElements(toks, isArray, acc) ==
  IF toks = << >> \/ Head(toks).k /= "byte" THEN ParseFail
  ELSE IF Head(toks).n = 0
       THEN Parsed(IF isArray THEN JArr(acc) ELSE JObj(acc), Tail(toks))
  ELSE IF Len(toks) < 2 \/ toks[2].k /= "cstring" THEN ParseFail
  ELSE LET r == ParseBsonElement(toks[1].n, SubSeq(toks, 3, Len(toks))) IN
       IF ~r.ok THEN ParseFail
       ELSE ParseBsonElements(r.rest, isArray,
              IF isArray THEN Append(acc, r.val) ELSE Put(acc, toks[2].s, r.val))

\* the document size is read and not used
ParseBsonDocument(toks, isArray) ==
  IF toks = << >> \/ Head(toks).k /= "int32" THEN ParseFail
  ELSE ParseBsonElements(Tail(toks), isArray,
         IF isArray THEN << >> ELSE EmptyFields)

\* the blob of n bytes at the head of toks
BlobBytes(toks, n) == [i \in 1..n |-> toks[i].n]

ParseBsonElement(tag, toks) ==
  CASE tag = 10 -> Parsed(JNull, toks)
    [] tag = 8 ->
         IF toks /= << >> /\ Head(toks).k = "byte"
         THEN Parsed(JBool(Head(toks).n /= 0), Tail(toks))
         ELSE ParseFail
    [] tag = 16 ->
         IF toks /= << >> /\ Head(toks).k = "int32"
         THEN Parsed(JInt(Head(toks).n), Tail(toks))
         ELSE ParseFail
    [] tag = 1 ->
         IF toks /= << >> /\ Head(toks).k = "double"
         THEN Parsed(JFloat(Head(toks).n), Tail(toks))
         ELSE ParseFail
    [] tag = 2 ->
         IF /\ Len(toks) >= 3
            /\ toks[1].k = "int32" /\ toks[2].k = "chars"
            /\ toks[1].n = Len(toks[2].s) + 1
            /\ toks[3].k = "byte"
         THEN Parsed(JStr(toks[2].s), SubSeq(toks, 4, Len(toks)))
         ELSE ParseFail
    [] tag = 5 ->
         IF /\ Len(toks) >= 2
            /\ toks[1].k = "int32" /\ toks[2].k = "byte"
            /\ toks[1].n >= 0 /\ Len(toks) >= 2 + toks[1].n
            /\ \A i \in 3..(2 + toks[1].n) : toks[i].k = "byte"
         THEN Parsed(JBin(BlobBytes(SubSeq(toks, 3, Len(toks)), toks[1].n)),
                     SubSeq(toks, 3 + toks[1].n, Len(toks)))
         ELSE ParseFail
    [] tag = 4 -> ParseBsonDocument(toks, TRUE)
    [] tag = 3 -> ParseBsonDocument(toks, FALSE)
    [] OTHER -> ParseFail

\* json::from_bson(): one document and nothing after it
from_bson(toks) ==
  LET r == ParseBsonDocument(toks, FALSE) IN
  IF r.ok /\ r.rest = << >> THEN r ELSE ParseFail

\* ------------------------------------------------------------------------
\* State
\* ------------------------------------------------------------------------
VARIABLES
  serializer,     \* the Serializer the encoding was instantiated with
  arg_order,      \* the order in which the build evaluates call arguments
  pc,             \* where the caller of the encoding is
  request,        \* the operation invoked last and its arguments
  sent,           \* the envelope the peer put on the wire, if it sent one
  msg_str,        \* the wire data given to interpret_websocket_msg
  conn,           \* the connection handle given to interpret_websocket_msg
  result,         \* how the last operation ended: normally or by which throw
  calls,          \* the endpoint calls made by the last operation
  output,         \* the envelope the last encoder handed to the serializer
  wire,           \* what the last serialization returned
  decoded,        \* what the last deserialization returned
  \* history of a tracked run
  handled,        \* number of messages interpreted so far
  delivered,      \* number of endpoint calls made so far
  failures,       \* number of interpret_websocket_msg calls that threw so far
  first           \* the first message and what interpret_websocket_msg did
                  \* with it

vars ==
  <<serializer, arg_order, pc, request, sent, msg_str, conn, result, calls,
    output, wire, decoded, handled, delivered, failures, first>>

Serializers == {"JsonSerializer", "BsonSerializer"}

\* function arguments are evaluated in an order the compiler chooses
ArgOrders == {"left_to_right", "right_to_left"}

\* connection handles of the transport
Handles == {"h1", "h2"}

\* ------------------------------------------------------------------------
\* Outcomes
\* ------------------------------------------------------------------------
Ok == [kind |-> "ok", field |-> "", payload |-> << >>]
\* json parse_error: the input is not a JSON text
MalformedWireData == [kind |-> "MalformedWireData", field |-> "", payload |-> << >>]
\* json type_error: a value is not of the type asked for
TypeError == [kind |-> "type_error", field |-> "", payload |-> << >>]
\* runtime_error of interpret_websocket_msg, carrying the message
MissingOpCode(payload) ==
  [kind |-> "MissingOpCode", field |-> "", payload |-> payload]
MissingRequiredField(key) ==
  [kind |-> "MissingRequiredField", field |-> key, payload |-> << >>]

\* what a call of interpret_websocket_msg does: how it ends and the endpoint
\* calls it makes
Outcome(r, cs) == [result |-> r, calls |-> cs]
Throws(r) == Outcome(r, << >>)

\* ------------------------------------------------------------------------
\* Collaborators: message conversion, field access, the serializers
\* ------------------------------------------------------------------------
\* soss::Message, with the structured value it converts to and from
Message(data) == [t |-> "message", data |-> data]
convert_to_json(msg) == msg.data
convert_from_json(j) == Message(j)

\* object.find(key) != object.end(); find on a value that is not an object
\* returns end()
Has(object, key) == object.t = "obj" /\ key \in DOMAIN object.fields

get_optional_string(object, key) ==
  IF Has(object, key) THEN JStr(object.fields[key].s) ELSE JStr("")

get_required_string(object, key) == JStr(object.fields[key].s)

get_required_msg(object, key) == convert_from_json(object.fields[key])

throw_missing_key(object, key) == MissingRequiredField(key)

JsonSerializer_serialize(msg) == Bytes(JsonDump(msg))
JsonSerializer_deserialize(data) == JsonParse(data)

BsonSerializer_serialize(msg) == to_bson(msg)
BsonSerializer_deserialize(data) == from_bson(data)

\* _serializer.serialize(output) of the instantiated template
Serialize(msg) ==
  IF serializer = "BsonSerializer" THEN BsonSerializer_serialize(msg)
  ELSE JsonSerializer_serialize(msg)

Deserialize(data) ==
  IF serializer = "BsonSerializer" THEN BsonSerializer_deserialize(data)
  ELSE JsonSerializer_deserialize(data)

\* ------------------------------------------------------------------------
\* interpret_websocket_msg
\* ------------------------------------------------------------------------
\* the arguments a handler extracts from the message
Required(key) == [key |-> key, required |-> TRUE, msg |-> FALSE]
RequiredMsg(key) == [key |-> key, required |-> TRUE, msg |-> TRUE]
Optional(key) == [key |-> key, required |-> FALSE, msg |-> FALSE]

Handle(method, args) == [method |-> method, args |-> args]
NoHandler == Handle("", << >>)

\* the chain of comparisons of op_str: the endpoint method of the first
\* op code that matches, and the arguments it is called with
Handler(op_str) ==
  IF op_str = JsonOpPublishKey
  THEN Handle("receive_publication_ws",
         <<Required(JsonTopicNameKey), RequiredMsg(JsonMsgKey)>>)
  ELSE IF op_str = JsonOpServiceRequestKey
  THEN Handle("receive_service_request_ws",
         <<Required(JsonServiceKey), RequiredMsg(JsonArgsKey),
           Optional(JsonIdKey)>>)
  ELSE IF op_str = JsonOpServiceResponseKey
  THEN Handle("receive_service_response_ws",
         <<Required(JsonServiceKey), RequiredMsg(JsonValuesKey),
           Optional(JsonIdKey)>>)
  ELSE IF op_str = JsonOpAdvertiseTopicKey
  THEN Handle("receive_topic_advertisement_ws",
         <<Required(JsonTopicNameKey), Required(JsonTypeNameKey),
           Optional(JsonIdKey)>>)
  ELSE IF op_str = JsonOpUnadvertiseTopicKey
  THEN Handle("receive_topic_unadvertisement_ws",
         <<Required(JsonTopicNameKey), Optional(JsonIdKey)>>)
  ELSE IF op_str = JsonOpSubscribeKey
  THEN Handle("receive_subscribe_request_ws",
         <<Required(JsonTopicNameKey), Optional(JsonTypeNameKey),
           Optional(JsonIdKey)>>)
  ELSE IF op_str = JsonOpUnsubscribeKey
  THEN Handle("receive_unsubscribe_request_ws",
         <<Required(JsonTopicNameKey), Optional(JsonIdKey)>>)
  ELSE IF op_str = JsonOpAdvertiseServiceKey
  THEN Handle("receive_service_advertisement_ws",
         <<Required(JsonServiceKey), Required(JsonTypeNameKey)>>)
  ELSE IF op_str = JsonOpUnadvertiseServiceKey
  THEN Handle("receive_service_unadvertisement_ws",
         <<Required(JsonServiceKey), Optional(JsonTypeNameKey)>>)
  ELSE NoHandler

\* one argument of the endpoint call
Extract(msg, arg) ==
  IF arg.msg THEN get_required_msg(msg, arg.key)
  ELSE IF arg.required THEN get_required_string(msg, arg.key)
  ELSE get_optional_string(msg, arg.key)

\* an endpoint call: the method, its arguments, the connection handle
Call(method, args, connection_handle) ==
  [method |-> method, args |-> args, handle |-> connection_handle]

Range(f) == {f[i] : i \in DOMAIN f}

Min(S) == CHOOSE x \in S : \A y \in S : x <= y
Max(S) == CHOOSE x \in S : \A y \in S : x >= y

\* the branch taken for op_str, if any: the arguments of its call are
\* evaluated in the order of the build, the first required field found
\* missing throws, and the endpoint is called only when every argument was
\* extracted; when no branch is taken the function returns
Dispatch(msg, handler, connection_handle) ==
  LET missing == {i \in DOMAIN handler.args :
                    handler.args[i].required /\ ~Has(msg, handler.args[i].key)}
      earliest == IF arg_order = "left_to_right" THEN Min(missing)
                  ELSE Max(missing)
  IN IF handler = NoHandler THEN Outcome(Ok, << >>)
     ELSE IF missing /= {}
     THEN Throws(throw_missing_key(msg, handler.args[earliest].key))
     ELSE Outcome(Ok,
            <<Call(handler.method,
                   [i \in DOMAIN handler.args |-> Extract(msg, handler.args[i])],
                   connection_handle)>>)

\* slips of the dispatch chain: subscribe requires type; publish takes msg as
\* optional; the last branch is taken without comparing op_str
Handler_type_required(op_str) ==
  IF op_str = JsonOpSubscribeKey
  THEN Handle("receive_subscribe_request_ws",
         <<Required(JsonTopicNameKey), Required(JsonTypeNameKey),
           Optional(JsonIdKey)>>)
  ELSE Handler(op_str)

Handler_msg_optional(op_str) ==
  IF op_str = JsonOpPublishKey
  THEN Handle("receive_publication_ws",
         <<Required(JsonTopicNameKey), Optional(JsonMsgKey)>>)
  ELSE Handler(op_str)

Handler_last_unconditional(op_str) ==
  IF Handler(op_str) = NoHandler
  THEN Handle("receive_service_unadvertisement_ws",
         <<Required(JsonServiceKey), Optional(JsonTypeNameKey)>>)
  ELSE Handler(op_str)

\* the head of interpret_websocket_msg: parse the text, find op, read it as
\* a string; thrown tells that it threw, and outcome what
ReadOp(str) ==
  LET parsed == JsonParse(str)
      msg == parsed.val
      Thrown(r) == [thrown |-> TRUE, outcome |-> Throws(r), msg |-> JNull,
                    op_str |-> ""]
  IN IF ~parsed.ok THEN Thrown(MalformedWireData)
     ELSE IF ~Has(msg, JsonOpKey) THEN Thrown(MissingOpCode(str))
     ELSE IF msg.fields[JsonOpKey].t /= "str" THEN Thrown(TypeError)
     ELSE [thrown |-> FALSE, outcome |-> Outcome(Ok, << >>), msg |-> msg,
           op_str |-> msg.fields[JsonOpKey].s]

\* slips of interpret_websocket_msg
interpret_type_required(str, connection_handle) ==
  LET r == ReadOp(str) IN
  IF r.thrown THEN r.outcome
  ELSE Dispatch(r.msg, Handler_type_required(r.op_str), connection_handle)

interpret_msg_optional(str, connection_handle) ==
  LET r == ReadOp(str) IN
  IF r.thrown THEN r.outcome
  ELSE Dispatch(r.msg, Handler_msg_optional(r.op_str), connection_handle)

interpret_last_unconditional(str, connection_handle) ==
  LET r == ReadOp(str) IN
  IF r.thrown THEN r.outcome
  ELSE Dispatch(r.msg, Handler_last_unconditional(r.op_str), connection_handle)

\* a message without op is dropped silently
interpret_op_ignored(str, connection_handle) ==
  LET r == ReadOp(str) IN
  IF r.thrown
  THEN (IF r.outcome.result.kind = "MissingOpCode" THEN Outcome(Ok, << >>)
        ELSE r.outcome)
  ELSE Dispatch(r.msg, Handler(r.op_str), connection_handle)

\* a failure is remembered and fails the calls after it
interpret_sticky(str, connection_handle) ==
  LET r == ReadOp(str) IN
  IF failures > 0 THEN Throws(MalformedWireData)
  ELSE IF r.thrown THEN r.outcome
  ELSE Dispatch(r.msg, Handler(r.op_str), connection_handle)

\* a field outside the vocabulary is rejected
interpret_strict(str, connection_handle) ==
  LET r == ReadOp(str) IN
  IF r.thrown THEN r.outcome
  ELSE IF Has(r.msg, "extra") THEN Throws(MalformedWireData)
  ELSE Dispatch(r.msg, Handler(r.op_str), connection_handle)

interpret_websocket_msg(str, connection_handle) ==
  LET r == ReadOp(str) IN
  IF r.thrown THEN r.outcome
  ELSE Dispatch(r.msg, Handler(r.op_str), connection_handle)

\* ------------------------------------------------------------------------
\* The encoders
\* ------------------------------------------------------------------------
\* what an encoder does: the envelope it builds and what serializing it gives
Encoded(fields) == [output |-> JObj(fields), wire |-> Serialize(JObj(fields))]

\* slip: id is written even when it is empty
encode_publication_msg_id_always(topic_name, topic_type, id, msg) ==
  Encoded(
    Put(Put(Put(Put(EmptyFields,
      JsonOpKey, JStr(JsonOpPublishKey)),
      JsonTopicNameKey, JStr(topic_name)),
      JsonMsgKey, convert_to_json(msg)),
      JsonIdKey, JStr(id)))

encode_publication_msg(topic_name, topic_type, id, msg) ==
  LET o == Put(Put(Put(EmptyFields,
             JsonOpKey, JStr(JsonOpPublishKey)),
             JsonTopicNameKey, JStr(topic_name)),
             JsonMsgKey, convert_to_json(msg))
  IN Encoded(IF id /= "" THEN Put(o, JsonIdKey, JStr(id)) ELSE o)

encode_service_response_msg(service_name, service_type, id, response, res) ==
  LET o == Put(Put(Put(Put(EmptyFields,
             JsonOpKey, JStr(JsonOpServiceResponseKey)),
             JsonServiceKey, JStr(service_name)),
             JsonValuesKey, convert_to_json(response)),
             JsonResultKey, JBool(res))
  IN Encoded(IF id /= "" THEN Put(o, JsonIdKey, JStr(id)) ELSE o)

encode_subscribe_msg(topic_name, message_type, id, configuration) ==
  LET o == Put(Put(Put(EmptyFields,
             JsonOpKey, JStr(JsonOpSubscribeKey)),
             JsonTopicNameKey, JStr(topic_name)),
             JsonTypeNameKey, JStr(message_type))
  IN Encoded(IF id /= "" THEN Put(o, JsonIdKey, JStr(id)) ELSE o)

encode_advertise_msg(topic_name, message_type, id, configuration) ==
  LET o == Put(Put(Put(EmptyFields,
             JsonOpKey, JStr(JsonOpAdvertiseTopicKey)),
             JsonTopicNameKey, JStr(topic_name)),
             JsonTypeNameKey, JStr(message_type))
  IN Encoded(IF id /= "" THEN Put(o, JsonIdKey, JStr(id)) ELSE o)

encode_call_service_msg(service_name, service_type, service_request, id, configuration) ==
  LET o == Put(Put(Put(EmptyFields,
             JsonOpKey, JStr(JsonOpServiceRequestKey)),
             JsonServiceKey, JStr(service_name)),
             JsonArgsKey, convert_to_json(service_request))
  IN Encoded(IF id /= "" THEN Put(o, JsonIdKey, JStr(id)) ELSE o)

\* slip: id is written as the other encoders write it
encode_advertise_service_msg_with_id(service_name, service_type, id, configuration) ==
  LET o == Put(Put(Put(EmptyFields,
             JsonOpKey, JStr(JsonOpAdvertiseServiceKey)),
             JsonTypeNameKey, JStr(service_type)),
             JsonServiceKey, JStr(service_name))
  IN Encoded(IF id /= "" THEN Put(o, JsonIdKey, JStr(id)) ELSE o)

encode_advertise_service_msg(service_name, service_type, id, configuration) ==
  Encoded(
    Put(Put(Put(EmptyFields,
      JsonOpKey, JStr(JsonOpAdvertiseServiceKey)),
      JsonTypeNameKey, JStr(service_type)),
      JsonServiceKey, JStr(service_name)))

\* ------------------------------------------------------------------------
\* Inputs
\* ------------------------------------------------------------------------
Topics == {"chatter", "scan"}
MessageTypes == {"std_msgs/String", "sensor_msgs/LaserScan"}
Services == {"add_two_ints"}
ServiceTypes == {"my_pkg/AddTwoInts"}
Ids == {"", "sub1"}
Configurations == {"empty", "throttled"}
Messages ==
  {Message(JObj([k \in {"a"} |-> JStr("hello")])),
   Message(JObj([k \in {"a", "b"} |-> JInt(2)]))}

\* the op codes of the protocol
OpCodes ==
  {JsonOpPublishKey, JsonOpServiceRequestKey, JsonOpServiceResponseKey,
   JsonOpAdvertiseTopicKey, JsonOpUnadvertiseTopicKey, JsonOpSubscribeKey,
   JsonOpUnsubscribeKey, JsonOpAdvertiseServiceKey,
   JsonOpUnadvertiseServiceKey}

\* what a peer may put in op: an op code, another string, a number
OpValues == {JStr(o) : o \in OpCodes} \cup {JStr("ping"), JInt(7)}

\* the fields a peer may send beside op, and what it puts in each
InboundFields ==
  {JsonTopicNameKey, JsonTypeNameKey, JsonMsgKey, JsonServiceKey,
   JsonArgsKey, JsonValuesKey, JsonIdKey, "extra"}

FieldValue(key) ==
  CASE key = JsonTopicNameKey -> JStr("chatter")
    [] key = JsonTypeNameKey -> JStr("std_msgs/String")
    [] key = JsonServiceKey -> JStr("add_two_ints")
    [] key = JsonIdKey -> JStr("id1")
    [] key = "extra" -> JInt(7)
    [] OTHER -> JObj([k \in {"a"} |-> JStr("hello")])

FieldSets == {F \in SUBSET InboundFields : Cardinality(F) <= MaxFields}

\* the inbound envelopes: with or without op
Envelopes ==
  {JObj([k \in F |-> FieldValue(k)]) : F \in FieldSets}
  \cup {JObj([k \in F \cup {JsonOpKey} |->
               IF k = JsonOpKey THEN o ELSE FieldValue(k)]) :
          F \in FieldSets, o \in OpValues}

NoEnvelope == [t |-> "none"]

\* inbound wire data that is no JSON text of an envelope: empty, truncated,
\* a BSON document, and JSON texts of values that are not objects
OtherWireData ==
  {<< >>,
   <<Punct("{")>>,
   <<Punct("{"), StrTok(JsonOpKey), Punct(":"), StrTok(JsonOpPublishKey)>>,
   BsonObject([k \in {JsonOpKey, JsonTopicNameKey} |->
                 IF k = JsonOpKey THEN JStr(JsonOpSubscribeKey)
                 ELSE JStr("scan")]),
   JsonDump(JArr(<<JStr(JsonOpPublishKey)>>)),
   JsonDump(JStr(JsonOpPublishKey))}

\* the values of the shared value model
Scalars ==
  {JNull, JBool(TRUE), JInt(-1), JFloat(1), JStr("scan"), JBin(<<1, 2>>)}
ValueKeys == {"a", "b", "extra"}
Arrays(S) == UNION {{JArr(q) : q \in [1..n -> S]} : n \in 0..MaxLen}
Objects(S) ==
  UNION {{JObj(f) : f \in [K -> S]} :
           K \in {K \in SUBSET ValueKeys : Cardinality(K) <= MaxLen}}
Values ==
  Scalars \cup Arrays(Scalars) \cup Objects(Scalars)
  \cup Objects({JArr(<<JInt(-1), JStr("scan")>>),
                JObj([k \in {"a"} |-> JBin(<<1, 2>>)])})
  \cup Arrays({JObj([k \in {"a"} |-> JStr("scan")]), JArr(<< >>)})

\* ------------------------------------------------------------------------
\* Operations
\* ------------------------------------------------------------------------
NoRequest == [fn |-> "", args |-> << >>]
NoBytes == [ok |-> FALSE, bytes |-> << >>]
NoFirst == [msg |-> << >>, conn |-> "", result |-> Ok, calls |-> << >>]

Init ==
  /\ serializer \in Serializers
  /\ arg_order \in ArgOrders
  /\ pc = "idle"
  /\ request = NoRequest
  /\ sent = NoEnvelope
  /\ msg_str = << >>
  /\ conn = ""
  /\ result = Ok
  /\ calls = << >>
  /\ output = NoEnvelope
  /\ wire = NoBytes
  /\ decoded = ParseFail
  /\ handled = 0
  /\ delivered = 0
  /\ failures = 0
  /\ first = NoFirst

\* interpret_websocket_msg(str, handle) is called and returns or throws; a
\* tracked run is a run of at most MaxMsgs calls that keeps its history
Interpret(str, handle, track) ==
  LET o == interpret_websocket_msg(str, handle) IN
  /\ msg_str' = str
  /\ conn' = handle
  /\ result' = o.result
  /\ calls' = o.calls
  /\ IF track
     THEN /\ handled < MaxMsgs
          /\ handled' = handled + 1
          /\ delivered' = delivered + Len(o.calls)
          /\ failures' = failures + (IF o.result = Ok THEN 0 ELSE 1)
          /\ first' = IF handled = 0
                      THEN [msg |-> str, conn |-> handle, result |-> o.result,
                            calls |-> o.calls]
                      ELSE first
     ELSE UNCHANGED <<handled, delivered, failures, first>>

\* the transport hands over the JSON text of an envelope of E
EnvelopeArrives(E, track) ==
  \E e \in E, handle \in Handles :
    /\ pc = "idle"
    /\ Interpret(JsonDump(e), handle, track)
    /\ sent' = e
    /\ request' = [fn |-> "interpret_websocket_msg", args |-> << >>]
    /\ pc' = "returned"
    /\ UNCHANGED <<serializer, arg_order, output, wire, decoded>>

\* the transport hands over other wire data
OtherWireDataArrives(track) ==
  \E str \in OtherWireData, handle \in Handles :
    /\ pc = "idle"
    /\ Interpret(str, handle, track)
    /\ sent' = NoEnvelope
    /\ request' = [fn |-> "interpret_websocket_msg", args |-> << >>]
    /\ pc' = "returned"
    /\ UNCHANGED <<serializer, arg_order, output, wire, decoded>>

OnEnvelope == EnvelopeArrives(Envelopes, FALSE)
OnOtherWireData == OtherWireDataArrives(FALSE)

\* the bytes an encoder returned are given to interpret_websocket_msg of
\* the same encoding
Loopback ==
  \E handle \in Handles :
    /\ pc = "encoded"
    /\ wire.ok
    /\ Interpret(wire.bytes, handle, FALSE)
    /\ pc' = "looped"
    /\ UNCHANGED <<serializer, arg_order, request, sent, output, wire, decoded>>

\* an encoder was called: e is what it did
Encode(fn, args, e) ==
  /\ pc = "idle"
  /\ request' = [fn |-> fn, args |-> args]
  /\ output' = e.output
  /\ wire' = e.wire
  /\ result' = IF e.wire.ok THEN Ok ELSE TypeError
  /\ pc' = "encoded"
  /\ UNCHANGED <<serializer, arg_order, sent, msg_str, conn, calls, decoded,
                 handled, delivered, failures, first>>

EncodePublication ==
  \E topic \in Topics, type \in MessageTypes, id \in Ids, msg \in Messages :
    Encode("encode_publication_msg", <<JStr(topic), JStr(type), JStr(id), msg>>,
           encode_publication_msg(topic, type, id, msg))

EncodeServiceResponse ==
  \E service \in Services, type \in ServiceTypes, id \in Ids,
     response \in Messages, res \in BOOLEAN :
    Encode("encode_service_response_msg",
           <<JStr(service), JStr(type), JStr(id), response, JBool(res)>>,
           encode_service_response_msg(service, type, id, response, res))

EncodeSubscribe ==
  \E topic \in Topics, type \in MessageTypes, id \in Ids,
     configuration \in Configurations :
    Encode("encode_subscribe_msg",
           <<JStr(topic), JStr(type), JStr(id), JStr(configuration)>>,
           encode_subscribe_msg(topic, type, id, configuration))

EncodeAdvertise ==
  \E topic \in Topics, type \in MessageTypes, id \in Ids,
     configuration \in Configurations :
    Encode("encode_advertise_msg",
           <<JStr(topic), JStr(type), JStr(id), JStr(configuration)>>,
           encode_advertise_msg(topic, type, id, configuration))

EncodeCallService ==
  \E service \in Services, type \in ServiceTypes, req \in Messages,
     id \in Ids, configuration \in Configurations :
    Encode("encode_call_service_msg",
           <<JStr(service), JStr(type), req, JStr(id), JStr(configuration)>>,
           encode_call_service_msg(service, type, req, id, configuration))

EncodeAdvertiseService ==
  \E service \in Services, type \in ServiceTypes, id \in Ids,
     configuration \in Configurations :
    Encode("encode_advertise_service_msg",
           <<JStr(service), JStr(type), JStr(id), JStr(configuration)>>,
           encode_advertise_service_msg(service, type, id, configuration))

\* Serializer::serialize on a value of the value model
SerializeValue ==
  \E v \in Values :
    /\ pc = "idle"
    /\ request' = [fn |-> "serialize", args |-> <<v>>]
    /\ wire' = Serialize(v)
    /\ result' = IF Serialize(v).ok THEN Ok ELSE TypeError
    /\ pc' = "serialized"
    /\ UNCHANGED <<serializer, arg_order, sent, msg_str, conn, calls, output,
                   decoded, handled, delivered, failures, first>>

\* Serializer::deserialize on the bytes serialize returned
DeserializeWire ==
  /\ pc = "serialized"
  /\ wire.ok
  /\ decoded' = Deserialize(wire.bytes)
  /\ result' = IF Deserialize(wire.bytes).ok THEN Ok ELSE MalformedWireData
  /\ pc' = "deserialized"
  /\ UNCHANGED <<serializer, arg_order, request, sent, msg_str, conn, calls,
                 output, wire, handled, delivered, failures, first>>

\* the operation is over: its arguments, locals and results are gone
Return ==
  /\ pc /= "idle"
  /\ pc' = "idle"
  /\ request' = NoRequest
  /\ sent' = NoEnvelope
  /\ msg_str' = << >>
  /\ conn' = ""
  /\ result' = Ok
  /\ calls' = << >>
  /\ output' = NoEnvelope
  /\ wire' = NoBytes
  /\ decoded' = ParseFail
  /\ UNCHANGED <<serializer, arg_order, handled, delivered, failures, first>>

Next ==
  \/ OnEnvelope
  \/ OnOtherWireData
  \/ Loopback
  \/ EncodePublication
  \/ EncodeServiceResponse
  \/ EncodeSubscribe
  \/ EncodeAdvertise
  \/ EncodeCallService
  \/ EncodeAdvertiseService
  \/ SerializeValue
  \/ DeserializeWire
  \/ Return

Spec == Init /\ [][Next]_vars

\* ------------------------------------------------------------------------
\* Runs of inbound messages only, with the first call remembered
\* ------------------------------------------------------------------------
\* for every op code the envelope with its required fields and the envelope
\* with none, an envelope without op, one with an unknown op
HistoryEnvelopes ==
  {e \in Envelopes :
     \/ /\ Has(e, JsonOpKey)
        /\ e.fields[JsonOpKey].t = "str"
        /\ \/ DOMAIN e.fields = {JsonOpKey}
           \/ /\ Handler(e.fields[JsonOpKey].s) /= NoHandler
              /\ DOMAIN e.fields \ {JsonOpKey} =
                   {a.key : a \in {b \in Range(Handler(e.fields[JsonOpKey].s).args) :
                                     b.required}}
     \/ DOMAIN e.fields = {JsonTopicNameKey}}

TrackedEnvelope == EnvelopeArrives(HistoryEnvelopes, TRUE)
TrackedOtherWireData == OtherWireDataArrives(TRUE)

HistoryNext ==
  \/ TrackedEnvelope
  \/ TrackedOtherWireData
  \/ Return

SpecHistory == Init /\ [][HistoryNext]_vars

TypeOK ==
  /\ pc \in {"idle", "returned", "encoded", "looped", "serialized", "deserialized"}
  /\ handled \in 0..MaxMsgs
  /\ delivered <= handled
  /\ failures <= handled
  /\ Len(calls) <= 1

\* ------------------------------------------------------------------------
\* The required/optional table of the specification
\* ------------------------------------------------------------------------
TableRequired(op) ==
  CASE op = "publish" -> {"topic", "msg"}
    [] op = "call_service" -> {"service", "args"}
    [] op = "service_response" -> {"service", "values"}
    [] op = "advertise" -> {"topic", "type"}
    [] op = "unadvertise" -> {"topic"}
    [] op = "subscribe" -> {"topic"}
    [] op = "unsubscribe" -> {"topic"}
    [] op = "advertise_service" -> {"service", "type"}
    [] op = "unadvertise_service" -> {"service"}
    [] OTHER -> {}

TableOptional(op) ==
  CASE op = "call_service" -> {"id"}
    [] op = "service_response" -> {"id"}
    [] op = "advertise" -> {"id"}
    [] op = "unadvertise" -> {"id"}
    [] op = "subscribe" -> {"type", "id"}
    [] op = "unsubscribe" -> {"id"}
    [] op = "unadvertise_service" -> {"type"}
    [] OTHER -> {}

\* the endpoint call of the table: the method (the endpoint interface names
\* it with the suffix _ws) and the fields it is called with
TableMethod(op) ==
  CASE op = "publish" -> "receive_publication_ws"
    [] op = "call_service" -> "receive_service_request_ws"
    [] op = "service_response" -> "receive_service_response_ws"
    [] op = "advertise" -> "receive_topic_advertisement_ws"
    [] op = "unadvertise" -> "receive_topic_unadvertisement_ws"
    [] op = "subscribe" -> "receive_subscribe_request_ws"
    [] op = "unsubscribe" -> "receive_unsubscribe_request_ws"
    [] op = "advertise_service" -> "receive_service_advertisement_ws"
    [] op = "unadvertise_service" -> "receive_service_unadvertisement_ws"

TableArguments(op) ==
  CASE op = "publish" -> <<"topic", "msg">>
    [] op = "call_service" -> <<"service", "args", "id">>
    [] op = "service_response" -> <<"service", "values", "id">>
    [] op = "advertise" -> <<"topic", "type", "id">>
    [] op = "unadvertise" -> <<"topic", "id">>
    [] op = "subscribe" -> <<"topic", "type", "id">>
    [] op = "unsubscribe" -> <<"topic", "id">>
    [] op = "advertise_service" -> <<"service", "type">>
    [] op = "unadvertise_service" -> <<"service", "type">>

TableOps ==
  {"publish", "call_service", "service_response", "advertise", "unadvertise",
   "subscribe", "unsubscribe", "advertise_service", "unadvertise_service"}

MessageFields == {"msg", "args", "values"}

\* the interpreted message is an envelope with op = op
SentOp(op) ==
  /\ pc = "returned"
  /\ sent /= NoEnvelope
  /\ "op" \in DOMAIN sent.fields
  /\ sent.fields["op"] = JStr(op)

\* the fields of the interpreted envelope other than op
SentFields == DOMAIN sent.fields \ {"op"}

\* the argument the table's call takes for field f of the sent envelope
TableArgument(f) ==
  IF f \notin SentFields THEN JStr("")
  ELSE IF f \in MessageFields THEN Message(sent.fields[f])
  ELSE sent.fields[f]

\* C1: for each of the nine ops, interpreting an envelope that holds op and
\* exactly the required fields of the op makes exactly one endpoint call:
\* the method of the table, with the values of the required fields, the
\* empty string for every optional argument, and the handle given.
C1_RequiredFieldsDispatch ==
  \A op \in TableOps :
    (SentOp(op) /\ SentFields = TableRequired(op)) =>
      /\ result = Ok
      /\ calls = <<Call(TableMethod(op),
                        [i \in DOMAIN TableArguments(op) |->
                           TableArgument(TableArguments(op)[i])],
                        conn)>>

C1_Witness ==
  /\ SentOp("subscribe")
  /\ SentFields = {"topic"}
  /\ calls = <<Call("receive_subscribe_request_ws",
                    <<JStr("chatter"), JStr(""), JStr("")>>, conn)>>

\* C2: interpreting an envelope without an op field fails with MissingOpCode
\* and makes no endpoint call, whatever other fields it has.
C2_MissingOpCode ==
  (pc = "returned" /\ sent /= NoEnvelope /\ "op" \notin DOMAIN sent.fields) =>
    /\ result.kind = "MissingOpCode"
    /\ result.payload = msg_str
    /\ calls = << >>

C2_Witness ==
  /\ pc = "returned"
  /\ sent /= NoEnvelope
  /\ DOMAIN sent.fields = {"topic", "msg"}
  /\ result.kind = "MissingOpCode"
  /\ calls = << >>

\* the interpreted envelope has op = op and lacks the required field f
Lacks(op, f) == SentOp(op) /\ f \in TableRequired(op) /\ f \notin SentFields

\* interpret threw MissingRequiredField naming a required field of op that
\* is absent, and called nothing
NamesAbsentField(op) ==
  /\ result.kind = "MissingRequiredField"
  /\ result.field \in TableRequired(op) \ SentFields
  /\ calls = << >>

\* C3 as stated: for every op and every required field of it, an envelope
\* with that op and without that field fails with MissingRequiredField
\* naming an absent required field and makes no endpoint call; op=publish
\* without msg fails with MissingRequiredField("msg").
C3_AsStated ==
  /\ \A op \in TableOps : \A f \in TableRequired(op) :
       Lacks(op, f) => NamesAbsentField(op)
  /\ Lacks("publish", "msg") => result = MissingRequiredField("msg")

\* C3 amended: as C3, but op=publish without msg is promised to name msg
\* only when topic, the other required field, is present.
C3_MissingRequiredField ==
  /\ \A op \in TableOps : \A f \in TableRequired(op) :
       Lacks(op, f) => NamesAbsentField(op)
  /\ (Lacks("publish", "msg") /\ "topic" \in SentFields) =>
       result = MissingRequiredField("msg")

C3_Witness ==
  /\ Lacks("publish", "msg")
  /\ SentFields = {"topic", "id"}
  /\ result = MissingRequiredField("msg")
  /\ calls = << >>

\* C4: interpreting an envelope whose op is a string outside the nine op
\* codes returns normally and makes no endpoint call, whatever other fields
\* it has.
C4_UnknownOpIgnored ==
  (/\ pc = "returned"
   /\ sent /= NoEnvelope
   /\ "op" \in DOMAIN sent.fields
   /\ sent.fields["op"].t = "str"
   /\ sent.fields["op"].s \notin TableOps) =>
    (result = Ok /\ calls = << >>)

C4_Witness ==
  /\ SentOp("ping")
  /\ SentFields = {"service", "type"}
  /\ result = Ok
  /\ calls = << >>

C6_BinarySubscribeRoundTrip ==
  (/\ pc = "looped"
   /\ serializer = "BsonSerializer"
   /\ request = [fn |-> "encode_subscribe_msg",
                 args |-> <<JStr("scan"), JStr("sensor_msgs/LaserScan"),
                            JStr("sub1"), JStr("empty")>>]) =>
    /\ result = Ok
    /\ calls = <<Call("receive_subscribe_request_ws",
                      <<JStr("scan"), JStr("sensor_msgs/LaserScan"),
                        JStr("sub1")>>, conn)>>

\* C7: for every value v of the value model, also one whose top level is
\* not a mapping, serialize(v) succeeds and deserialize(serialize(v)) is v,
\* for the binary codec as for the text codec.
C7_CodecRoundTrip ==
  /\ pc = "serialized" => wire.ok
  /\ pc = "deserialized" => decoded = Parsed(request.args[1], << >>)

\* the fields an encoder always writes, and where it takes id
FixedFields(fn) ==
  CASE fn = "encode_publication_msg" -> {"op", "topic", "msg"}
    [] fn = "encode_service_response_msg" -> {"op", "service", "values", "result"}
    [] fn = "encode_subscribe_msg" -> {"op", "topic", "type"}
    [] fn = "encode_advertise_msg" -> {"op", "topic", "type"}
    [] fn = "encode_call_service_msg" -> {"op", "service", "args"}

IdArgument(fn) == IF fn = "encode_call_service_msg" THEN 4 ELSE 3

\* C8: the envelope encode_publication_msg, encode_service_response_msg,
\* encode_subscribe_msg, encode_advertise_msg and encode_call_service_msg
\* hand to the serializer has exactly the fixed fields of the encoder
\* (result also when it is false), and id if and only if the id argument is
\* not empty, id then being that argument.
C8_EncodedFields ==
  (/\ pc = "encoded"
   /\ request.fn \in {"encode_publication_msg", "encode_service_response_msg",
                      "encode_subscribe_msg", "encode_advertise_msg",
                      "encode_call_service_msg"}) =>
    LET id == request.args[IdArgument(request.fn)] IN
    /\ output.t = "obj"
    /\ DOMAIN output.fields =
         FixedFields(request.fn) \cup (IF id /= JStr("") THEN {"id"} ELSE {})
    /\ id /= JStr("") => output.fields["id"] = id

C8_Witness ==
  /\ pc = "encoded"
  /\ request.fn = "encode_service_response_msg"
  /\ request.args[3] = JStr("sub1")
  /\ request.args[5] = JBool(FALSE)
  /\ DOMAIN output.fields = {"op", "service", "values", "result", "id"}
  /\ output.fields["result"] = JBool(FALSE)

\* C9: the envelope of encode_advertise_service_msg has exactly the fields
\* op = advertise_service, type and service, and no id, whatever the id
\* argument and the configuration are.
C9_AdvertiseServiceNoId ==
  (pc = "encoded" /\ request.fn = "encode_advertise_service_msg") =>
    /\ output.t = "obj"
    /\ DOMAIN output.fields = {"op", "type", "service"}
    /\ output.fields["op"] = JStr("advertise_service")
    /\ output.fields["service"] = request.args[1]
    /\ output.fields["type"] = request.args[2]

C9_Witness ==
  /\ pc = "encoded"
  /\ request.fn = "encode_advertise_service_msg"
  /\ request.args[3] = JStr("sub1")
  /\ request.args[4] = JStr("throttled")
  /\ "id" \notin DOMAIN output.fields

\* the op of the interpreted envelope, if it has one that is a string
SentOpString ==
  IF "op" \in DOMAIN sent.fields /\ sent.fields["op"].t = "str"
  THEN sent.fields["op"].s ELSE ""

\* the interpreted envelope without field f
SentWithout(f) == JObj([k \in DOMAIN sent.fields \ {f} |-> sent.fields[k]])

\* C10: a field that is neither required nor optional for the op of an
\* envelope does not change what interpret_websocket_msg does with it: with
\* and without the field the same endpoint method is called with the same
\* arguments and handle, or the same error is raised, and at most one
\* endpoint call is made.
C10_UnusedFieldsIgnored ==
  (pc = "returned" /\ sent /= NoEnvelope) =>
    /\ Len(calls) <= 1
    /\ \A f \in SentFields \ (TableRequired(SentOpString)
                              \cup TableOptional(SentOpString)) :
         LET without == interpret_websocket_msg(JsonDump(SentWithout(f)), conn)
         IN /\ calls = without.calls
            /\ result.kind = without.result.kind
            /\ result.field = without.result.field

C10_Witness ==
  /\ SentOp("advertise")
  /\ SentFields = {"topic", "type", "id", "extra"}
  /\ calls = <<Call("receive_topic_advertisement_ws",
                    <<JStr("chatter"), JStr("std_msgs/String"), JStr("id1")>>,
                    conn)>>

====
